---- MODULE Spec2Model ----
(***************************************************************************)
(* Adaptive image loader: the core orchestrator (core.ts), the image       *)
(* loader store (loader.ts), the visibility tracker (observer.ts) and the  *)
(* scroll velocity classifier (velocity.ts), as one state machine.         *)
(*                                                                         *)
(* Every callback the browser can deliver (scroll event, setTimeout        *)
(* callback, IntersectionObserver callback) and every public operation     *)
(* (registerImage, destroy) is one atomic action: the program is           *)
(* single-threaded and no handler yields.  Time is a discrete clock that   *)
(* the action Tick advances; a timer may fire at or after its deadline.    *)
(*                                                                         *)
(* Left out: console logging, currentVelocity (only logged), the           *)
(* data-label attribute (only logged), TrackedImage.element (the map key). *)
(***************************************************************************)
EXTENDS Naturals, Integers, Sequences, FiniteSets, TLC

\* ------------------------------------------------------------- bounds
SlowDurationMs == 2         \* config.slowDurationMs, in clock ticks
SlowVelocityThreshold == 1  \* config.slowVelocityThreshold, px per ms
MaxDy == 2                  \* largest |currentY - lastY| of a scroll sample
MaxDt == 2                  \* largest now - lastTime of a scroll sample
MaxEntries == 2             \* most entries of one IntersectionObserver callback

\* The image elements of the page (opaque references).
Elements == {"imgA", "imgB"}

\* The configurations registerImage is called with.
Configs == { [lowSrc |-> "low1", highSrc |-> "high1"],
             [lowSrc |-> "low2", highSrc |-> "high2"] }

VARIABLES
    images,            \* loader.ts: Map element -> TrackedImage
    src,               \* element.src of every image element
    registeredImages,  \* core.ts: Set of registered elements
    visibilityMap,     \* observer.ts: Map element -> boolean
    observed,          \* the IntersectionObserver's observation targets
    staleTargets,      \* targets whose entries were queued before disconnect()
    currentSpeed,      \* core.ts: "SLOW" | "FAST"
    isSlowStable,      \* core.ts
    slowTimer,         \* core.ts: the setTimeout handle, with its time left
    listening,         \* velocity.ts: the scroll listener is attached
    slowVelocityThreshold,  \* velocity.ts: the threshold createCore passed on
    slowStreak,        \* clock: ticks since the speed last became SLOW
    scrolled,          \* a scroll sample has been processed
    last               \* the callback handled last, and what it did

vars == << images, src, registeredImages, visibilityMap, observed, staleTargets,
           currentSpeed, isSlowStable, slowTimer, listening, slowVelocityThreshold,
           slowStreak, scrolled, last >>

\* ------------------------------------------------------------ loader.ts
\* The store's state as the operators pass it on: the map, the elements'
\* src, and the elements the high source was applied to in this handler.
Store(imgs, srcs, ups) == [images |-> imgs, src |-> srcs, swapped |-> ups]

\* Mutant of loaderRegisterImage: a tracked element keeps its upgraded flag.
loaderRegisterImage_KeepsUpgraded(st, element, config) ==
    Store((element :> [lowSrc |-> config.lowSrc, highSrc |-> config.highSrc,
                       upgraded |-> IF element \in DOMAIN st.images
                                    THEN st.images[element].upgraded
                                    ELSE FALSE]) @@ st.images,
          [st.src EXCEPT ![element] = config.lowSrc],
          st.swapped)

\* Mutant of loaderRegisterImage: the store keeps only the new record.
loaderRegisterImage_ClearsMap(st, element, config) ==
    Store((element :> [lowSrc |-> config.lowSrc, highSrc |-> config.highSrc,
                       upgraded |-> FALSE]),
          [st.src EXCEPT ![element] = config.lowSrc],
          st.swapped)

\* registerImage of the loader: element.src = lowSrc, then images.set(...).
loaderRegisterImage(st, element, config) ==
    Store((element :> [lowSrc |-> config.lowSrc, highSrc |-> config.highSrc,
                       upgraded |-> FALSE]) @@ st.images,
          [st.src EXCEPT ![element] = config.lowSrc],
          st.swapped)

\* Mutant of upgradeImage: the `if (tracked.upgraded) return false` is lost.
upgradeImage_NoUpgradedCheck(st, element) ==
    IF element \notin DOMAIN st.images THEN [ret |-> FALSE, store |-> st]
    ELSE [ret |-> TRUE,
          store |-> Store([st.images EXCEPT ![element].upgraded = TRUE],
                          [st.src EXCEPT ![element] = st.images[element].highSrc],
                          st.swapped \cup {element})]

\* upgradeImage: the returned boolean and the store after the call.
upgradeImage(st, element) ==
    IF element \notin DOMAIN st.images THEN [ret |-> FALSE, store |-> st]
    ELSE IF st.images[element].upgraded THEN [ret |-> FALSE, store |-> st]
    ELSE [ret |-> TRUE,
          store |-> Store([st.images EXCEPT ![element].upgraded = TRUE],
                          [st.src EXCEPT ![element] = st.images[element].highSrc],
                          st.swapped \cup {element})]

isUpgraded(imgs, element) ==
    IF element \in DOMAIN imgs THEN imgs[element].upgraded ELSE FALSE

\* Mutant of loaderClear: images.clear() is lost.
loaderClear_KeepsImages(st) == st

\* clear() of the loader: the applied sources are not reverted.
loaderClear(st) == Store(<< >>, st.src, st.swapped)

\* ---------------------------------------------------------- observer.ts
observeImage(vmap, img) == (img :> FALSE) @@ vmap

isVisible(vmap, img) == IF img \in DOMAIN vmap THEN vmap[img] = TRUE ELSE FALSE

\* IntersectionObserver.disconnect(): the map is cleared.
disconnect(vmap) == << >>

\* ---------------------------------------------------------- velocity.ts
\* Mutant of classify: the operands of the division are swapped (dt / dy).
classify_SwappedOperands(dy, dt) ==
    IF dt > 0
    THEN (IF dt <= slowVelocityThreshold * dy THEN "SLOW" ELSE "FAST")
    ELSE (IF 0 <= slowVelocityThreshold THEN "SLOW" ELSE "FAST")

\* Mutant of classify: the comparison is strict (velocity < threshold).
classify_StrictBoundary(dy, dt) ==
    IF dt > 0
    THEN (IF dy < slowVelocityThreshold * dt THEN "SLOW" ELSE "FAST")
    ELSE (IF 0 < slowVelocityThreshold THEN "SLOW" ELSE "FAST")

\* handleScroll's classification of one sample: dy = |currentY - lastY|,
\* dt = now - lastTime.  velocity = dt > 0 ? dy / dt : 0, and
\* velocity <= threshold is SLOW; dy / dt <= th is dy <= th * dt for dt > 0.
classify(dy, dt) ==
    IF dt > 0
    THEN (IF dy <= slowVelocityThreshold * dt THEN "SLOW" ELSE "FAST")
    ELSE (IF 0 <= slowVelocityThreshold THEN "SLOW" ELSE "FAST")

\* -------------------------------------------------------------- core.ts
NoTimer == [pending |-> FALSE, remaining |-> 0]
Timer(ms) == [pending |-> TRUE, remaining |-> ms]

\* Mutant of handleSpeedChange: the FAST branch leaves isSlowStable alone.
handleSpeedChange_FastKeepsStable(speed, stable, timer) ==
    IF speed = "FAST"
    THEN [isSlowStable |-> stable, slowTimer |-> NoTimer]
    ELSE IF stable
         THEN [isSlowStable |-> stable, slowTimer |-> timer]
         ELSE IF ~timer.pending
              THEN [isSlowStable |-> stable, slowTimer |-> Timer(SlowDurationMs)]
              ELSE [isSlowStable |-> stable, slowTimer |-> timer]

\* Mutant of handleSpeedChange: the FAST branch does not clear the timer.
handleSpeedChange_FastKeepsTimer(speed, stable, timer) ==
    IF speed = "FAST"
    THEN [isSlowStable |-> FALSE, slowTimer |-> timer]
    ELSE IF stable
         THEN [isSlowStable |-> stable, slowTimer |-> timer]
         ELSE IF ~timer.pending
              THEN [isSlowStable |-> stable, slowTimer |-> Timer(SlowDurationMs)]
              ELSE [isSlowStable |-> stable, slowTimer |-> timer]

\* Mutant of handleSpeedChange: a SLOW sample restarts a pending timer.
handleSpeedChange_SlowRestartsTimer(speed, stable, timer) ==
    IF speed = "FAST"
    THEN [isSlowStable |-> FALSE, slowTimer |-> NoTimer]
    ELSE IF stable
         THEN [isSlowStable |-> stable, slowTimer |-> timer]
         ELSE [isSlowStable |-> stable, slowTimer |-> Timer(SlowDurationMs)]

\* Mutant of handleSpeedChange: a FAST sample starts the debounce timer.
handleSpeedChange_FastStartsTimer(speed, stable, timer) ==
    IF speed = "FAST"
    THEN [isSlowStable |-> FALSE, slowTimer |-> Timer(SlowDurationMs)]
    ELSE IF stable \/ timer.pending
         THEN [isSlowStable |-> stable, slowTimer |-> timer]
         ELSE [isSlowStable |-> stable, slowTimer |-> Timer(SlowDurationMs)]

\* Mutant of handleSpeedChange: the `if (isSlowStable) return` is lost.
handleSpeedChange_StableStartsTimer(speed, stable, timer) ==
    IF speed = "FAST"
    THEN [isSlowStable |-> FALSE, slowTimer |-> NoTimer]
    ELSE IF ~timer.pending
         THEN [isSlowStable |-> stable, slowTimer |-> Timer(SlowDurationMs)]
         ELSE [isSlowStable |-> stable, slowTimer |-> timer]

\* handleSpeedChange: the new isSlowStable and slowTimer.
handleSpeedChange(speed, stable, timer) ==
    IF speed = "FAST"
    THEN [isSlowStable |-> FALSE, slowTimer |-> NoTimer]
    ELSE IF stable
         THEN [isSlowStable |-> stable, slowTimer |-> timer]
         ELSE IF ~timer.pending
              THEN [isSlowStable |-> stable, slowTimer |-> Timer(SlowDurationMs)]
              ELSE [isSlowStable |-> stable, slowTimer |-> timer]

\* Mutant of tryUpgradeImage: the isSlowStable guard is lost.
tryUpgradeImage_NoStableGuard(stable, registered, st, img) ==
    IF img \notin registered THEN st
    ELSE IF isUpgraded(st.images, img) THEN st
    ELSE upgradeImage(st, img).store

\* tryUpgradeImage: the store after the guarded attempt.
tryUpgradeImage(stable, registered, st, img) ==
    IF ~stable THEN st
    ELSE IF img \notin registered THEN st
    ELSE IF isUpgraded(st.images, img) THEN st
    ELSE upgradeImage(st, img).store

\* Mutant of attemptUpgradesFrom: the visibility test is lost.
RECURSIVE attemptUpgradesFrom_NoVisibilityCheck(_, _, _, _, _)
attemptUpgradesFrom_NoVisibilityCheck(todo, stable, registered, vmap, st) ==
    IF todo = {} THEN st
    ELSE LET img == CHOOSE x \in todo : TRUE
             st1 == tryUpgradeImage(stable, registered, st, img)
         IN attemptUpgradesFrom_NoVisibilityCheck(todo \ {img}, stable,
                                                  registered, vmap, st1)

\* Mutant of attemptUpgradesFrom: the loop stops after the first upgrade.
RECURSIVE attemptUpgradesFrom_FirstOnly(_, _, _, _, _)
attemptUpgradesFrom_FirstOnly(todo, stable, registered, vmap, st) ==
    IF todo = {} THEN st
    ELSE LET img == CHOOSE x \in todo : TRUE
             st1 == IF ~isVisible(vmap, img) THEN st
                    ELSE tryUpgradeImage(stable, registered, st, img)
         IN IF st1.swapped # st.swapped THEN st1
            ELSE attemptUpgradesFrom_FirstOnly(todo \ {img}, stable,
                                               registered, vmap, st1)

\* registeredImages.forEach(...): `todo` is what is left to visit.
RECURSIVE attemptUpgradesFrom(_, _, _, _, _)
attemptUpgradesFrom(todo, stable, registered, vmap, st) ==
    IF todo = {} THEN st
    ELSE LET img == CHOOSE x \in todo : TRUE
             st1 == IF ~isVisible(vmap, img) THEN st
                    ELSE tryUpgradeImage(stable, registered, st, img)
         IN attemptUpgradesFrom(todo \ {img}, stable, registered, vmap, st1)

attemptUpgradesForVisibleImages(stable, registered, vmap, st) ==
    attemptUpgradesFrom(registered, stable, registered, vmap, st)

\* Mutant of slowTimerCallback: the pass over the visible images is lost.
slowTimerCallback_NoAttempt(speed, stable, registered, vmap, st) ==
    IF speed = "SLOW"
    THEN [isSlowStable |-> TRUE, store |-> st]
    ELSE [isSlowStable |-> stable, store |-> st]

\* The setTimeout callback of handleSpeedChange (slowTimer is set to null
\* by the action): the new isSlowStable and the store.
slowTimerCallback(speed, stable, registered, vmap, st) ==
    IF speed = "SLOW"
    THEN [isSlowStable |-> TRUE,
          store |-> attemptUpgradesForVisibleImages(TRUE, registered, vmap, st)]
    ELSE [isSlowStable |-> stable, store |-> st]

\* Mutant of visibilityListener: the listener only logs the change.
visibilityListener_NoUpgrade(element, visible, stable, registered, st) == st

\* The visibility listener createCore hands to the observer.
visibilityListener(element, visible, stable, registered, st) ==
    IF visible /\ stable
    THEN tryUpgradeImage(stable, registered, st, element)
    ELSE st

\* Mutant of intersectionCallback: the listener is called for every entry.
RECURSIVE intersectionCallback_LevelTriggered(_, _, _, _)
intersectionCallback_LevelTriggered(entries, stable, registered, acc) ==
    IF entries = << >> THEN acc
    ELSE LET entry == Head(entries)
             target == entry.target
             visible == entry.isIntersecting
             vmap1 == (target :> visible) @@ acc.visibilityMap
             acc1 == [visibilityMap |-> vmap1,
                      store |-> visibilityListener(target, visible, stable,
                                                   registered, acc.store),
                      emitted |-> Append(acc.emitted,
                                  [element |-> target, isVisible |-> visible])]
         IN intersectionCallback_LevelTriggered(Tail(entries), stable,
                                                registered, acc1)

\* The IntersectionObserver callback: the entries in order.  `acc` carries
\* the visibility map, the store and the listener calls made so far.
RECURSIVE intersectionCallback(_, _, _, _)
intersectionCallback(entries, stable, registered, acc) ==
    IF entries = << >> THEN acc
    ELSE LET entry == Head(entries)
             target == entry.target
             visible == entry.isIntersecting
             changed == IF target \in DOMAIN acc.visibilityMap
                        THEN acc.visibilityMap[target] # visible
                        ELSE TRUE
             vmap1 == (target :> visible) @@ acc.visibilityMap
             acc1 == IF changed
                     THEN [visibilityMap |-> vmap1,
                           store |-> visibilityListener(target, visible, stable,
                                                        registered, acc.store),
                           emitted |-> Append(acc.emitted,
                                       [element |-> target, isVisible |-> visible])]
                     ELSE [visibilityMap |-> vmap1, store |-> acc.store,
                           emitted |-> acc.emitted]
         IN intersectionCallback(Tail(entries), stable, registered, acc1)

\* -------------------------------------------------------------- history
\* `last` records the step just taken: the callback, its arguments, what
\* held of its target before it ran, the visibility listener calls it made
\* and the elements it applied the high source to.
NoOptions == [lowSrc |-> "", highSrc |-> ""]
Event(kind, stable) ==
    [kind |-> kind, el |-> {}, options |-> NoOptions,
     wasStable |-> stable, wasRegistered |-> FALSE,
     wasUpgraded |-> FALSE, wasVisible |-> FALSE, emitted |-> << >>,
     upgraded |-> {}]

\* ---------------------------------------------------------------- Init
\* The state when createCore returns: initScrollVelocity has emitted its
\* initial (velocity 0, SLOW) state, so handleSpeedChange has run once.
createCore(threshold) ==
    /\ slowVelocityThreshold = threshold
    /\ staleTargets = {}
    /\ images = << >>
    /\ src = [e \in Elements |-> ""]
    /\ registeredImages = {}
    /\ visibilityMap = << >>
    /\ observed = {}
    /\ currentSpeed = "SLOW"
    /\ isSlowStable = handleSpeedChange("SLOW", FALSE, NoTimer).isSlowStable
    /\ slowTimer = handleSpeedChange("SLOW", FALSE, NoTimer).slowTimer
    /\ listening = TRUE
    /\ slowStreak = 0
    /\ scrolled = FALSE
    /\ last = Event("init", FALSE)

Init == createCore(SlowVelocityThreshold)

\* createCore called with any threshold, negative ones included.
Thresholds == {-1, 0, SlowVelocityThreshold}
InitAnyConfig == \E threshold \in Thresholds : createCore(threshold)

\* -------------------------------------------------------------- actions
\* core.registerImage(element, options)
RegisterImage(element, options) ==
    LET registered1 == registeredImages \cup {element}
        st1 == loaderRegisterImage(Store(images, src, {}), element, options)
        vmap1 == observeImage(visibilityMap, element)
        st2 == IF isSlowStable /\ isVisible(vmap1, element)
               THEN tryUpgradeImage(isSlowStable, registered1, st1, element)
               ELSE st1
    IN /\ registeredImages' = registered1
       /\ images' = st2.images
       /\ src' = st2.src
       /\ visibilityMap' = vmap1
       /\ observed' = observed \cup {element}
       /\ last' = [Event("register", isSlowStable) EXCEPT
                     !.el = {element},
                     !.options = options,
                     !.wasRegistered = element \in registeredImages,
                     !.wasUpgraded = isUpgraded(images, element),
                     !.wasVisible = isVisible(visibilityMap, element),
                     !.upgraded = st2.swapped]
       /\ staleTargets' = staleTargets \ {element}
       /\ UNCHANGED << currentSpeed, isSlowStable, slowTimer, listening,
                       slowVelocityThreshold, slowStreak, scrolled >>

\* Mutant of Destroy: the clearTimeout(slowTimer) is lost.
Destroy_KeepsTimer ==
    /\ registeredImages' = {}
    /\ visibilityMap' = disconnect(visibilityMap)
    /\ observed' = {}
    /\ images' = loaderClear(Store(images, src, {})).images
    /\ listening' = FALSE
    /\ last' = Event("destroy", isSlowStable)
    /\ staleTargets' = staleTargets \cup observed
    /\ UNCHANGED << src, currentSpeed, isSlowStable, slowTimer,
                    slowVelocityThreshold, slowStreak, scrolled >>

\* core.destroy()
Destroy ==
    /\ registeredImages' = {}
    /\ visibilityMap' = disconnect(visibilityMap)
    /\ observed' = {}
    /\ images' = loaderClear(Store(images, src, {})).images
    /\ listening' = FALSE
    /\ slowTimer' = NoTimer
    /\ last' = Event("destroy", isSlowStable)
    /\ staleTargets' = staleTargets \cup observed
    /\ UNCHANGED << src, currentSpeed, isSlowStable, slowVelocityThreshold,
                    slowStreak, scrolled >>

\* A scroll event: handleScroll, the velocity listener, handleSpeedChange.
Scroll(dy, dt) ==
    /\ listening
    /\ LET speed == classify(dy, dt)
           r == handleSpeedChange(speed, isSlowStable, slowTimer)
       IN /\ currentSpeed' = speed
          /\ isSlowStable' = r.isSlowStable
          /\ slowTimer' = r.slowTimer
          /\ slowStreak' = IF speed = "SLOW" /\ currentSpeed = "SLOW"
                           THEN slowStreak ELSE 0
    /\ scrolled' = TRUE
    /\ last' = Event("scroll", isSlowStable)
    /\ UNCHANGED << images, src, registeredImages, visibilityMap, observed,
                    listening, slowVelocityThreshold, staleTargets >>

\* The debounce timer fires, at or after its deadline.
TimerFire ==
    /\ slowTimer.pending
    /\ slowTimer.remaining = 0
    /\ LET r == slowTimerCallback(currentSpeed, isSlowStable, registeredImages,
                                  visibilityMap, Store(images, src, {}))
       IN /\ slowTimer' = NoTimer
          /\ isSlowStable' = r.isSlowStable
          /\ images' = r.store.images
          /\ src' = r.store.src
          /\ last' = [Event("timer", isSlowStable) EXCEPT !.upgraded = r.store.swapped]
    /\ UNCHANGED << registeredImages, visibilityMap, observed, currentSpeed,
                    listening, slowVelocityThreshold,
                    staleTargets, slowStreak, scrolled >>

\* The IntersectionObserver delivers entries for observed targets.
Entries == UNION { [1..n -> [target : observed, isIntersecting : BOOLEAN]]
                   : n \in 1..MaxEntries }

Intersection(entries) ==
    /\ LET r == intersectionCallback(entries, isSlowStable, registeredImages,
                    [visibilityMap |-> visibilityMap,
                     store |-> Store(images, src, {}),
                     emitted |-> << >>])
       IN /\ visibilityMap' = r.visibilityMap
          /\ images' = r.store.images
          /\ src' = r.store.src
          /\ last' = [Event("intersection", isSlowStable) EXCEPT
                        !.emitted = r.emitted, !.upgraded = r.store.swapped]
    /\ UNCHANGED << registeredImages, observed, currentSpeed, isSlowStable,
                    slowTimer, listening, slowVelocityThreshold,
                    staleTargets, slowStreak, scrolled >>

\* After disconnect() the observer's notification task can still deliver the
\* entries that were queued before it, in one callback.  A target that is
\* observed again leaves staleTargets: its entries are those of Intersection.
LateEntries == UNION { [1..n -> [target : staleTargets, isIntersecting : BOOLEAN]]
                       : n \in 1..MaxEntries }

LateIntersection(entries) ==
    /\ staleTargets # {}
    /\ LET r == intersectionCallback(entries, isSlowStable, registeredImages,
                    [visibilityMap |-> visibilityMap,
                     store |-> Store(images, src, {}),
                     emitted |-> << >>])
       IN /\ visibilityMap' = r.visibilityMap
          /\ images' = r.store.images
          /\ src' = r.store.src
          /\ last' = [Event("intersection", isSlowStable) EXCEPT
                        !.emitted = r.emitted, !.upgraded = r.store.swapped]
    /\ staleTargets' = {}
    /\ UNCHANGED << registeredImages, observed, currentSpeed, isSlowStable,
                    slowTimer, listening, slowVelocityThreshold, slowStreak,
                    scrolled >>

\* One clock tick passes with no callback running.
Tick ==
    /\ slowTimer' = IF slowTimer.pending /\ slowTimer.remaining > 0
                    THEN Timer(slowTimer.remaining - 1) ELSE slowTimer
    /\ slowStreak' = IF currentSpeed = "SLOW" /\ slowStreak < SlowDurationMs
                     THEN slowStreak + 1 ELSE slowStreak
    /\ last' = Event("tick", isSlowStable)
    /\ UNCHANGED << images, src, registeredImages, visibilityMap, observed,
                    currentSpeed, isSlowStable, listening, slowVelocityThreshold,
                    staleTargets, scrolled >>

Next ==
    \/ \E element \in Elements, options \in Configs : RegisterImage(element, options)
    \/ Destroy
    \/ \E dy \in 0..MaxDy, dt \in 0..MaxDt : Scroll(dy, dt)
    \/ TimerFire
    \/ \E entries \in Entries : Intersection(entries)
    \/ \E entries \in LateEntries : LateIntersection(entries)
    \/ Tick

Spec == Init /\ [][Next]_vars

\* The event loop runs a due timer callback, and time passes.
FairSpec == Init /\ [][Next]_vars /\ WF_vars(TimerFire) /\ WF_vars(Tick)

\* A sample whose velocity dy / dt is above the threshold.
AboveThreshold(dy, dt) == dt > 0 /\ dy > slowVelocityThreshold * dt

\* The program when every scroll sample has a velocity above the threshold.
NextFastOnly ==
    \/ \E element \in Elements, options \in Configs : RegisterImage(element, options)
    \/ Destroy
    \/ \E dy \in 0..MaxDy, dt \in 0..MaxDt : AboveThreshold(dy, dt) /\ Scroll(dy, dt)
    \/ TimerFire
    \/ \E entries \in Entries : Intersection(entries)
    \/ \E entries \in LateEntries : LateIntersection(entries)
    \/ Tick

SpecFastOnly == Init /\ [][NextFastOnly]_vars

\* The program for every configuration createCore accepts.
SpecAnyConfig == InitAnyConfig /\ [][Next]_vars

\* The velocity controller and the stability state it drives, with no image
\* registered: scroll samples, the debounce timer, time passing and destroy.
NextVelocity ==
    \/ \E dy \in 0..MaxDy, dt \in 0..MaxDt : Scroll(dy, dt)
    \/ TimerFire
    \/ Tick
    \/ Destroy

\* createCore for every threshold up to two above the configured one.
InitVelocity ==
    \E threshold \in -1 .. (SlowVelocityThreshold + 2) : createCore(threshold)

SpecVelocity == InitVelocity /\ [][NextVelocity]_vars

\* =============================================================== claims
TheStore == Store(images, src, {})

\* last.emitted holds a listener call (element, TRUE).
EmittedVisible(e) ==
    \E i \in 1..Len(last.emitted) :
        last.emitted[i] = [element |-> e, isVisible |-> TRUE]

\* --------------------------------------------------------------------- C1
\* upgradeImage on an upgraded resource returns false and changes nothing.
UpgradeRefused ==
    \A e \in Elements :
        isUpgraded(images, e) =>
            /\ upgradeImage(TheStore, e).ret = FALSE
            /\ upgradeImage(TheStore, e).store = TheStore

\* C1: within one registration, upgrade is at-most-once and monotonic: an
\* upgraded resource stays upgraded in every step other than its own
\* re-registration and destroy (the only unregistration/clear the core
\* performs), no such step applies the high source to it again or touches
\* its src, and upgradeImage on it returns false without effect.
C1_MonotonicUpgrade ==
    [][ /\ \A e \in Elements :
             ( /\ isUpgraded(images, e)
               /\ ~(last'.kind = "register" /\ last'.el = {e})
               /\ last'.kind # "destroy" )
             => ( /\ isUpgraded(images', e)
                  /\ e \notin last'.upgraded
                  /\ src'[e] = src[e] )
        /\ UpgradeRefused' ]_vars

\* An upgraded resource was reported visible again while STABLE_SLOW, so the
\* listener attempted it once more, and the attempt applied nothing.
C1_Witness ==
    \E e \in Elements :
        /\ last.kind = "intersection"
        /\ last.wasStable
        /\ EmittedVisible(e)
        /\ e \in registeredImages
        /\ isUpgraded(images, e)
        /\ e \notin last.upgraded

\* --------------------------------------------------------------------- C2
\* C2: the high source is applied only in a step that ends with the
\* orchestrator STABLE_SLOW and the resource registered; and in every
\* reachable state an attempt is a no-op when the orchestrator is not
\* STABLE_SLOW, the resource is not registered or it is already upgraded.
C2_UpgradeOnlyWhenStable ==
    /\ \A e \in last.upgraded :
          isSlowStable /\ e \in registeredImages /\ isUpgraded(images, e)
    /\ \A e \in Elements :
          (~isSlowStable \/ e \notin registeredImages \/ isUpgraded(images, e))
          => tryUpgradeImage(isSlowStable, registeredImages, TheStore, e) = TheStore
    /\ ~isSlowStable =>
          attemptUpgradesForVisibleImages(isSlowStable, registeredImages,
                                          visibilityMap, TheStore) = TheStore

\* A registered resource became visible while the orchestrator was not
\* STABLE_SLOW and was left at its low source.
C2_Witness ==
    \E e \in registeredImages :
        /\ ~isSlowStable
        /\ last.kind = "intersection"
        /\ EmittedVisible(e)
        /\ isVisible(visibilityMap, e)
        /\ ~isUpgraded(images, e)
        /\ last.upgraded = {}

\* --------------------------------------------------------------------- C3
\* C3: a resource is upgraded only while its visibility flag is true: in an
\* intersection callback the listener was called for it with isVisible true
\* (the flag was set just before), in every other step the flag is true
\* when the step ends; and the pass over the registered set upgrades no
\* resource whose flag is not true.
C3_VisibilityGating ==
    /\ \A e \in last.upgraded :
          IF last.kind = "intersection"
          THEN EmittedVisible(e)
          ELSE isVisible(visibilityMap, e)
    /\ \A e \in Elements :
          ~isVisible(visibilityMap, e) =>
              e \notin attemptUpgradesForVisibleImages(
                           TRUE, registeredImages, visibilityMap, TheStore).swapped

\* The timer fired and made the orchestrator STABLE_SLOW, one resource was
\* upgraded and a registered resource that is not visible stayed low.
C3_Witness ==
    \E e \in registeredImages :
        /\ last.kind = "timer"
        /\ isSlowStable
        /\ last.upgraded # {}
        /\ ~isVisible(visibilityMap, e)
        /\ ~isUpgraded(images, e)

\* --------------------------------------------------------------------- C4
\* C4: when a scroll sample classified FAST has been processed, whatever the
\* state before it, isSlowStable is false and no debounce timer is pending.
C4_FastWinsImmediately ==
    (last.kind = "scroll" /\ currentSpeed = "FAST")
    => (~isSlowStable /\ ~slowTimer.pending)

\* A FAST sample was processed while the orchestrator was STABLE_SLOW.
C4_Witness ==
    /\ last.kind = "scroll"
    /\ currentSpeed = "FAST"
    /\ last.wasStable

\* --------------------------------------------------------------------- C5
\* C5: the orchestrator is STABLE_SLOW only when the speed has been SLOW
\* without a FAST sample for at least the stability duration, and a resource
\* is upgraded only then.
C5_DebounceRespected ==
    /\ isSlowStable => slowStreak >= SlowDurationMs
    /\ last.upgraded # {} => slowStreak >= SlowDurationMs

\* After an earlier stable period (a resource is upgraded) a FAST sample
\* reset the debounce: a new SLOW streak is under way, shorter than the
\* duration, and a visible registered resource is still at its low source.
C5_Witness ==
    \E e \in registeredImages, f \in registeredImages :
        /\ SlowDurationMs > 0
        /\ isUpgraded(images, f)
        /\ ~isSlowStable
        /\ currentSpeed = "SLOW"
        /\ slowTimer.pending
        /\ slowStreak > 0
        /\ slowStreak < SlowDurationMs
        /\ isVisible(visibilityMap, e)
        /\ ~isUpgraded(images, e)

\* --------------------------------------------------------------------- C6
\* The timer callback has run: the orchestrator is STABLE_SLOW, every
\* registered resource marked visible is upgraded, and what the step upgraded
\* is registered and visible.
TimerStepUpgradesVisible ==
    last.kind = "timer" =>
        /\ ~last.wasStable
        /\ isSlowStable
        /\ \A e \in registeredImages :
              isVisible(visibilityMap, e) => isUpgraded(images, e)
        /\ \A e \in last.upgraded :
              e \in registeredImages /\ isVisible(visibilityMap, e)

\* C6: a pending debounce timer leads to STABLE_SLOW unless a FAST sample or
\* destroy cancels it first, and the step in which it fires makes the
\* orchestrator STABLE_SLOW and upgrades every registered visible resource.
C6_DebounceCompletes ==
    /\ []TimerStepUpgradesVisible
    /\ slowTimer.pending ~>
          \/ isSlowStable
          \/ last.kind = "destroy"
          \/ (last.kind = "scroll" /\ currentSpeed = "FAST")

\* The timer fired and upgraded two visible registered resources at once.
C6_Witness ==
    /\ last.kind = "timer"
    /\ isSlowStable
    /\ last.upgraded = registeredImages
    /\ Cardinality(registeredImages) >= 2

\* --------------------------------------------------------------------- C7
\* C7: after an intersection callback in STABLE_SLOW, every registered
\* resource whose flag flipped to visible (the listener was called with
\* isVisible true) is upgraded, and the callback upgraded no resource other
\* than those.
C7_VisibleWhileStableUpgrades ==
    (last.kind = "intersection" /\ last.wasStable) =>
        /\ \A e \in registeredImages : EmittedVisible(e) => isUpgraded(images, e)
        /\ \A e \in last.upgraded : EmittedVisible(e)

\* In STABLE_SLOW one resource became visible and was upgraded by that
\* callback, while another registered resource stayed at its low source.
C7_Witness ==
    \E e \in registeredImages, f \in registeredImages :
        /\ last.kind = "intersection"
        /\ last.wasStable
        /\ last.upgraded = {e}
        /\ EmittedVisible(e)
        /\ ~isUpgraded(images, f)

\* --------------------------------------------------------------------- C8
\* C8: registerImage called in STABLE_SLOW for a resource the tracker marks
\* visible at that time leaves the resource upgraded when it returns.
C8_RegistrationTrigger ==
    (last.kind = "register" /\ last.wasStable /\ last.wasVisible) =>
        \A e \in last.el : isUpgraded(images, e)

\* --------------------------------------------------------------------- C9
\* C9: after re-registering a registered resource, its tracked configuration
\* is the new one, upgraded is false and its src is the new low source; one
\* upgrade then succeeds and applies the new high source, a second returns
\* false.
C9_IdempotentRegistration ==
    (last.kind = "register" /\ last.wasRegistered) =>
        \A e \in last.el :
            /\ e \in registeredImages
            /\ e \in DOMAIN images
            /\ images[e] = [lowSrc |-> last.options.lowSrc,
                            highSrc |-> last.options.highSrc,
                            upgraded |-> FALSE]
            /\ src[e] = last.options.lowSrc
            /\ last.upgraded = {}
            /\ LET first == upgradeImage(TheStore, e)
                   second == upgradeImage(first.store, e)
               IN /\ first.ret = TRUE
                  /\ first.store.src[e] = last.options.highSrc
                  /\ second.ret = FALSE
                  /\ second.store = first.store

\* An upgraded resource was registered again and is back at a low source.
C9_Witness ==
    \E e \in Elements :
        /\ last.kind = "register"
        /\ last.el = {e}
        /\ last.wasRegistered
        /\ last.wasUpgraded
        /\ ~isUpgraded(images, e)
        /\ src[e] = last.options.lowSrc

\* -------------------------------------------------------------------- C10
\* C10 as stated: when every scroll sample is FAST the orchestrator is never
\* STABLE_SLOW and no resource is ever upgraded.
C10_NeverStableIfAllFast ==
    ~isSlowStable /\ \A e \in Elements : ~isUpgraded(images, e)

\* C10 amended: when every scroll sample is FAST, from the first processed
\* sample on the orchestrator is not STABLE_SLOW and no step upgrades a
\* resource.
C10_NeverStableAfterFirstFast ==
    scrolled => (~isSlowStable /\ last.upgraded = {})

\* FAST samples have been processed, time passes, and a visible registered
\* resource is still at its low source.
C10_Witness ==
    \E e \in registeredImages :
        /\ scrolled
        /\ last.kind = "tick"
        /\ isVisible(visibilityMap, e)
        /\ ~isUpgraded(images, e)

\* -------------------------------------------------------------------- C11
\* What destroy leaves behind: no pending timer, no scroll listener, an
\* empty visibility map, no observation target, an empty registered set and
\* an empty store.
TornDown ==
    /\ ~slowTimer.pending
    /\ ~listening
    /\ DOMAIN visibilityMap = {}
    /\ observed = {}
    /\ registeredImages = {}
    /\ DOMAIN images = {}

\* C11: whatever the state destroy is called in, it returns with everything
\* torn down, and a destroy that directly follows a destroy changes nothing
\* of the program's state.
C11_DestroyTearsDown ==
    [][ /\ last'.kind = "destroy" => TornDown'
        /\ (last.kind = "destroy" /\ last'.kind = "destroy") =>
              /\ images' = images
              /\ src' = src
              /\ registeredImages' = registeredImages
              /\ visibilityMap' = visibilityMap
              /\ observed' = observed
              /\ currentSpeed' = currentSpeed
              /\ isSlowStable' = isSlowStable
              /\ slowTimer' = slowTimer
              /\ listening' = listening ]_vars

\* destroy was called in STABLE_SLOW after a resource had been upgraded.
C11_Witness ==
    /\ last.kind = "destroy"
    /\ last.wasStable
    /\ \E e \in Elements : src[e] \in { c.highSrc : c \in Configs }

\* -------------------------------------------------------------------- C12
\* C12: when destroy returns, isSlowStable is false and no timer is pending.
C12_DestroyResetsStability ==
    last.kind = "destroy" => (~isSlowStable /\ ~slowTimer.pending)

\* -------------------------------------------------------------------- C13
\* C13: createCore with a negative threshold sets nothing up: no scroll
\* listener is attached and no debounce timer is started.
C13_NegativeThresholdRejected ==
    slowVelocityThreshold < 0 => (~listening /\ ~slowTimer.pending)

\* -------------------------------------------------------------------- C14
\* createCore returns after the initial (velocity 0, SLOW) emission and
\* before any sample: the speed is SLOW and the debounce timer it started
\* has its full duration left.
InitialEmission ==
    /\ currentSpeed = "SLOW"
    /\ slowTimer = Timer(SlowDurationMs)
    /\ ~scrolled

\* C14: for every threshold >= 0, every scroll sample (dy, dt) is delivered
\* whatever the previous speed, and the speed it delivers is SLOW iff dt = 0
\* or dy / dt <= threshold, FAST otherwise; the initial state is emitted
\* before any sample.
C14_Classification ==
    /\ InitialEmission
    /\ [](listening => \A dy \in 0..MaxDy, dt \in 0..MaxDt :
                          ENABLED Scroll(dy, dt))
    /\ [][ (slowVelocityThreshold >= 0 /\ last'.kind = "scroll") =>
             \A dy \in 0..MaxDy, dt \in 0..MaxDt :
                Scroll(dy, dt) =>
                   /\ currentSpeed' = "SLOW"
                         <=> (dt = 0 \/ dy <= slowVelocityThreshold * dt)
                   /\ currentSpeed' = "FAST"
                         <=> (dt > 0 /\ dy > slowVelocityThreshold * dt) ]_vars

\* With threshold 0 a sample was classified SLOW right after a FAST one was
\* (the orchestrator is UNSTABLE with a fresh timer).
C14_Witness ==
    /\ slowVelocityThreshold = 0
    /\ last.kind = "scroll"
    /\ currentSpeed = "SLOW"
    /\ scrolled
    /\ slowStreak = 0
    /\ slowTimer = Timer(SlowDurationMs)

\* -------------------------------------------------------------------- C15
\* C15: a SLOW sample processed while a timer is pending or while
\* STABLE_SLOW changes neither the timer, nor isSlowStable, nor any
\* resource state; and a pending timer's time left is always the duration
\* less the length of the current SLOW streak.
C15_SlowSampleIsNoOp ==
    [][ /\ ( /\ last'.kind = "scroll"
             /\ currentSpeed' = "SLOW"
             /\ (slowTimer.pending \/ isSlowStable) )
           => ( /\ slowTimer' = slowTimer
                /\ isSlowStable' = isSlowStable
                /\ currentSpeed' = currentSpeed
                /\ images' = images
                /\ src' = src
                /\ registeredImages' = registeredImages
                /\ visibilityMap' = visibilityMap )
        /\ slowTimer'.pending =>
              slowTimer'.remaining = SlowDurationMs - slowStreak' ]_vars

\* A SLOW sample arrived while the timer had already run part of its time
\* and the timer was not restarted.
C15_Witness ==
    /\ last.kind = "scroll"
    /\ currentSpeed = "SLOW"
    /\ slowTimer.pending
    /\ slowTimer.remaining < SlowDurationMs

\* -------------------------------------------------------------------- C16
\* The listener calls of a callback with the one entry (e, b).
EmittedFor(e, b) ==
    intersectionCallback(<< [target |-> e, isIntersecting |-> b] >>,
        isSlowStable, registeredImages,
        [visibilityMap |-> visibilityMap, store |-> TheStore,
         emitted |-> << >>]).emitted

\* The listener calls of a callback with the entry (e, b) twice.
EmittedForTwice(e, b) ==
    intersectionCallback(<< [target |-> e, isIntersecting |-> b],
                            [target |-> e, isIntersecting |-> b] >>,
        isSlowStable, registeredImages,
        [visibilityMap |-> visibilityMap, store |-> TheStore,
         emitted |-> << >>]).emitted

\* C16: for an observed element the tracker calls the listener for a sample
\* iff the sample differs from the stored flag, once; a repeated identical
\* sample calls it no second time; and observeImage stores false and calls
\* no listener, so that a first sample false is silent and a first sample
\* true is one call.
C16_EdgeTriggered ==
    /\ \A e \in observed : \A b \in BOOLEAN :
          /\ e \in DOMAIN visibilityMap
          /\ EmittedFor(e, b) =
                IF visibilityMap[e] # b
                THEN << [element |-> e, isVisible |-> b] >>
                ELSE << >>
          /\ EmittedForTwice(e, b) = EmittedFor(e, b)
    /\ last.kind = "register" =>
          \A e \in last.el :
              /\ e \in observed
              /\ e \in DOMAIN visibilityMap
              /\ visibilityMap[e] = FALSE
              /\ last.emitted = << >>
              /\ EmittedFor(e, FALSE) = << >>
              /\ EmittedFor(e, TRUE) = << [element |-> e, isVisible |-> TRUE] >>

\* A callback whose samples all repeated the stored flags called no listener.
C16_Witness ==
    /\ last.kind = "intersection"
    /\ observed # {}
    /\ last.emitted = << >>
    /\ \E e \in observed : visibilityMap[e] = TRUE

C18_StabilityStateMachine ==
    /\ isSlowStable => (currentSpeed = "SLOW" /\ ~slowTimer.pending)
    /\ slowTimer.pending => (currentSpeed = "SLOW" /\ ~isSlowStable)
    /\ \A speed \in {"SLOW", "FAST"} :
          LET r == handleSpeedChange(speed, isSlowStable, slowTimer)
          IN /\ (slowTimer.pending /\ r.slowTimer.pending) =>
                    r.slowTimer = slowTimer
             /\ r.slowTimer.pending => (speed = "SLOW" /\ ~r.isSlowStable)
             /\ r.isSlowStable => (speed = "SLOW" /\ ~r.slowTimer.pending)

\* A SLOW sample was processed in STABLE_SLOW and started no timer.
C18_Witness ==
    /\ last.kind = "scroll"
    /\ last.wasStable
    /\ currentSpeed = "SLOW"
    /\ isSlowStable
    /\ ~slowTimer.pending

\* -------------------------------------------------------------------- C19
\* C19: in every state between callbacks, if the orchestrator is
\* STABLE_SLOW then every registered resource whose tracker flag is true is
\* upgraded.
C19_StableVisibleAreUpgraded ==
    isSlowStable =>
        \A e \in registeredImages :
            isVisible(visibilityMap, e) => isUpgraded(images, e)

\* STABLE_SLOW with both resources registered, visible and upgraded, the
\* last of them by an observer callback.
C19_Witness ==
    /\ isSlowStable
    /\ last.kind = "intersection"
    /\ last.upgraded # {}
    /\ registeredImages = Elements
    /\ \A e \in Elements :
          isVisible(visibilityMap, e) /\ isUpgraded(images, e)

\* -------------------------------------------------------------------- C20
\* destroy() has returned and registerImage has not been called since.
Quiescent ==
    /\ ~listening
    /\ registeredImages = {}

\* C20: between destroy() and the next registerImage no timer is pending
\* and no scroll listener is attached, and no step (late observer callback,
\* time passing, another destroy) upgrades a resource or changes
\* isSlowStable, currentSpeed, the timer handle, the store or any src.
C20_QuiescentAfterDestroy ==
    [][ /\ Quiescent' => ~slowTimer'.pending
        /\ (Quiescent /\ Quiescent') =>
              /\ isSlowStable' = isSlowStable
              /\ currentSpeed' = currentSpeed
              /\ slowTimer' = slowTimer
              /\ last'.upgraded = {}
              /\ images' = images
              /\ src' = src ]_vars

\* After a destroy in STABLE_SLOW a late observer callback reported a
\* formerly registered resource visible; the listener ran and upgraded
\* nothing.
C20_Witness ==
    \E e \in Elements :
        /\ Quiescent
        /\ last.kind = "intersection"
        /\ last.wasStable
        /\ isSlowStable
        /\ EmittedVisible(e)
        /\ last.upgraded = {}
        /\ src[e] \notin { c.highSrc : c \in Configs }

\* -------------------------------------------------------------------- C21
\* The step left a timer pending that was not pending before, or one with
\* more time left than before.
TimerStarted ==
    /\ slowTimer'.pending
    /\ ~slowTimer.pending \/ slowTimer'.remaining > slowTimer.remaining

\* C21: a step starts the debounce timer only if it is a scroll sample
\* classified SLOW; and while the most recent sample is FAST the
\* orchestrator is UNSTABLE, and every step that is not a scroll sample
\* (time passing, an observer callback, a registration, destroy) leaves it
\* UNSTABLE with the speed FAST and upgrades no resource: the only src it
\* may write is the low source of the resource being registered.
C21_TimerOnlyFromSlowSample ==
    [][ /\ TimerStarted => (last'.kind = "scroll" /\ currentSpeed' = "SLOW")
        /\ currentSpeed' = "FAST" =>
              (scrolled' /\ ~isSlowStable' /\ ~slowTimer'.pending)
        /\ (currentSpeed = "FAST" /\ last'.kind # "scroll") =>
              /\ currentSpeed' = "FAST"
              /\ ~isSlowStable'
              /\ ~slowTimer'.pending
              /\ last'.upgraded = {}
              /\ \A e \in Elements :
                    /\ isUpgraded(images', e) => isUpgraded(images, e)
                    /\ src'[e] # src[e] =>
                          /\ last'.kind = "register" /\ last'.el = {e}
                          /\ src'[e] = images'[e].lowSrc ]_vars

\* After a FAST sample a registered resource was reported visible by an
\* observer callback; no timer is pending and the resource is not upgraded.
C21_Witness ==
    \E e \in registeredImages :
        /\ currentSpeed = "FAST"
        /\ last.kind = "intersection"
        /\ EmittedVisible(e)
        /\ isVisible(visibilityMap, e)
        /\ ~isUpgraded(images, e)
        /\ ~isSlowStable
        /\ ~slowTimer.pending

====
